---- MODULE Spec2Model ----
(***************************************************************************)
(* A model of the redis-rs server (src/src/bin/server.rs): the shared      *)
(* State (keystore and ttl priority queue), the command table's handlers,  *)
(* the connection task's read / dispatch / write loop and the expiration   *)
(* sweeper task.                                                           *)
(*                                                                         *)
(* Text (Rust String) is a sequence of one-character strings; an instant   *)
(* (SystemTime) is a number of milliseconds since UNIX_EPOCH.              *)
(***************************************************************************)
EXTENDS Integers, Sequences, FiniteSets, TLC

(***************************************************************************)
(* Bounds of the model and constants of the program.                       *)
(***************************************************************************)
\* The clock advances at most this many times, one second each time.
MaxTicks == 1

\* Duration::from_secs counts seconds; instants are kept in milliseconds.
MsPerSec == 1000

\* tokio::time::sleep(Duration::from_secs(1)) in the sweeper.
SleepSecs == 1

\* The width given to i64, whose 64 bits are beyond the checker's integers.
I64Bits == 8

(***************************************************************************)
(* RedisType (src/src/lib.rs).                                             *)
(***************************************************************************)
NullString == [type |-> "NullString"]

NullArray == [type |-> "NullArray"]

String(v) == [type |-> "String", value |-> v]

Error(v) == [type |-> "Error", value |-> v]

Integer(v) == [type |-> "Integer", value |-> v]

Array(v) == [type |-> "Array", value |-> v]

(***************************************************************************)
(* Text helpers: str::to_ascii_uppercase, i64::to_string, str::parse::<i64>*)
(***************************************************************************)
LowerAlpha ==
    <<"a","b","c","d","e","f","g","h","i","j","k","l","m",
      "n","o","p","q","r","s","t","u","v","w","x","y","z">>

UpperAlpha ==
    <<"A","B","C","D","E","F","G","H","I","J","K","L","M",
      "N","O","P","Q","R","S","T","U","V","W","X","Y","Z">>

DigitChars == <<"0","1","2","3","4","5","6","7","8","9">>

upper_char(c) ==
    IF \E i \in 1..26 : LowerAlpha[i] = c
    THEN UpperAlpha[CHOOSE i \in 1..26 : LowerAlpha[i] = c]
    ELSE c

to_ascii_uppercase(s) == [i \in 1..Len(s) |-> upper_char(s[i])]

IsDigit(c) == \E d \in 1..10 : DigitChars[d] = c

DigitVal(c) == (CHOOSE d \in 1..10 : DigitChars[d] = c) - 1

RECURSIVE nat_to_string(_)
nat_to_string(n) ==
    IF n < 10 THEN <<DigitChars[n + 1]>>
    ELSE nat_to_string(n \div 10) \o <<DigitChars[(n % 10) + 1]>>

\* i64::to_string: minimal decimal, "-" before a negative number.
to_string(n) == IF n < 0 THEN <<"-">> \o nat_to_string(0 - n) ELSE nat_to_string(n)

RECURSIVE digits_value(_)
digits_value(s) ==
    IF Len(s) = 0 THEN 0
    ELSE 10 * digits_value(SubSeq(s, 1, Len(s) - 1)) + DigitVal(s[Len(s)])

\* i64 is modelled I64Bits wide: I64_MIN .. I64_MAX stand for -2^63 .. 2^63-1.
I64_MODULUS == 2 ^ I64Bits

I64_MAX == 2 ^ (I64Bits - 1) - 1

I64_MIN == 0 - 2 ^ (I64Bits - 1)

\* The number `v` as str::parse::<i64> gives it: an Err when out of range.
in_i64(v) ==
    IF I64_MIN <= v /\ v <= I64_MAX THEN [ok |-> TRUE, value |-> v]
    ELSE [ok |-> FALSE, value |-> 0]

\* str::parse::<i64>: an optional sign, then one or more decimal digits.
parse_digits(negative, body) ==
    IF Len(body) = 0 \/ \E i \in 1..Len(body) : ~IsDigit(body[i])
    THEN [ok |-> FALSE, value |-> 0]
    ELSE in_i64(IF negative THEN 0 - digits_value(body) ELSE digits_value(body))

parse_i64(s) ==
    IF Len(s) > 0 /\ s[1] \in {"+", "-"}
    THEN parse_digits(s[1] = "-", SubSeq(s, 2, Len(s)))
    ELSE parse_digits(FALSE, s)

(***************************************************************************)
(* The wire format (src/src/lib.rs): Display::fmt and FromStr::from_str.   *)
(* A wire text is a sequence of one-character strings, one per byte.       *)
(***************************************************************************)
crlf == <<"\r", "\n">>

\* char::is_control, on the characters of the model.
is_control(c) == c \in {"\t", "\r", "\n"}

\* A String arm without the empty-string case: C17 must not hold of it.
fmt_string_plain(value, bulk) ==
    IF bulk \/ \E i \in 1..Len(value) : is_control(value[i])
    THEN <<"$">> \o to_string(Len(value)) \o crlf \o value \o crlf
    ELSE <<"+">> \o value \o crlf

\* The String arm of fmt; `bulk` is ALWAYS_USE_BULK_STRING.
fmt_string(value, bulk) ==
    IF Len(value) = 0 THEN <<"$", "0">> \o crlf \o crlf
    ELSE IF bulk \/ \E i \in 1..Len(value) :
                       is_control(value[i]) \/ value[i] = "\r" \/ value[i] = "\n"
    THEN <<"$">> \o to_string(Len(value)) \o crlf \o value \o crlf
    ELSE <<"+">> \o value \o crlf

RECURSIVE fmt(_, _)
RECURSIVE fmt_elements(_, _)
\* for el in value { write!(f, "{}", el)?; }
fmt_elements(value, bulk) ==
    IF Len(value) = 0 THEN <<>>
    ELSE fmt(Head(value), bulk) \o fmt_elements(Tail(value), bulk)

\* impl Display for RedisType: RedisType::to_string.
fmt(v, bulk) ==
    CASE v.type = "NullString" -> <<"$", "-", "1">> \o crlf
      [] v.type = "NullArray" -> <<"*", "-", "1">> \o crlf
      [] v.type = "String" -> fmt_string(v.value, bulk)
      [] v.type = "Error" -> <<"-">> \o v.value \o crlf
      [] v.type = "Integer" -> <<":">> \o to_string(v.value) \o crlf
      [] v.type = "Array" ->
            <<"*">> \o to_string(Len(v.value)) \o crlf \o fmt_elements(v.value, bulk)

\* The results of parse: Ok((rest, value)), Err(error), or a panic.
ParseOk(rest, value) == [kind |-> "Ok", rest |-> rest, value |-> value, err |-> ""]

ParseErr(e) == [kind |-> "Err", rest |-> <<>>, value |-> NullString, err |-> e]

ParsePanic == [kind |-> "Panic", rest |-> <<>>, value |-> NullString, err |-> ""]

\* s.contains("\r\n")
contains_crlf(s) == \E i \in 1..(Len(s) - 1) : s[i] = "\r" /\ s[i + 1] = "\n"

\* s.find("\r\n").unwrap(): the index, from 0, of the first "\r\n".
find_crlf(s) ==
    (CHOOSE i \in 1..(Len(s) - 1) :
        /\ s[i] = "\r" /\ s[i + 1] = "\n"
        /\ \A j \in 1..(i - 1) : ~(s[j] = "\r" /\ s[j + 1] = "\n")) - 1

\* ':' => Integer { value: payload.parse::<i64>().unwrap() }
parse_integer(rest, n) ==
    IF ~n.ok THEN ParsePanic ELSE ParseOk(rest, Integer(n.value))

\* '$': String::from(&rest[0..len]); rest = &rest[len + 2..];  a range past
\* the end of rest panics, and the two bytes skipped are not looked at.
parse_bulk(rest, n) ==
    IF ~n.ok THEN ParsePanic
    ELSE IF n.value < 0 THEN ParseOk(rest, NullString)
    ELSE IF n.value + 2 > Len(rest) THEN ParsePanic
    ELSE ParseOk(SubSeq(rest, n.value + 3, Len(rest)), String(SubSeq(rest, 1, n.value)))

RECURSIVE parse(_)
RECURSIVE parse_elements(_, _, _)
\* let (next, el) = parse(rest)?; value.push(el); rest = next;
parse_element(len, value, el) ==
    IF el.kind # "Ok" THEN el
    ELSE parse_elements(el.rest, len - 1, Append(value, el.value))

\* for _ in 0..len { .. }  with `len` elements still to read.
parse_elements(rest, len, value) ==
    IF len = 0 THEN ParseOk(rest, Array(value))
    ELSE parse_element(len, value, parse(rest))

\* '*': the array of payload.parse::<i64>().unwrap() elements.
parse_array(rest, n) ==
    IF ~n.ok THEN ParsePanic
    ELSE IF n.value < 0 THEN ParseOk(rest, NullArray)
    ELSE parse_elements(rest, n.value, <<>>)

\* match bytes[0] as char { .. }
parse_prefix(prefix, payload, rest) ==
    CASE prefix = "+" -> ParseOk(rest, String(payload))
      [] prefix = "-" -> ParseOk(rest, Error(payload))
      [] prefix = ":" -> parse_integer(rest, parse_i64(payload))
      [] prefix = "*" -> parse_array(rest, parse_i64(payload))
      [] prefix = "$" -> parse_bulk(rest, parse_i64(payload))
      [] OTHER -> ParseErr("InvalidPrefix")

\* let payload = &s[1..crlf]; let mut rest = &s[crlf + 2..];  with the
\* "\r\n" at index 0 the range 1..0 panics.
parse_line(s, at) ==
    IF at < 1 THEN ParsePanic
    ELSE parse_prefix(s[1], SubSeq(s, 2, at), SubSeq(s, at + 3, Len(s)))

\* fn parse(s: &str) -> Result<(&str, RedisType), RedisTypeParseError>
parse(s) ==
    IF Len(s) = 0 THEN ParseErr("MissingPrefix")
    ELSE IF ~contains_crlf(s) THEN ParseErr("InvalidSuffix")
    ELSE parse_line(s, find_crlf(s))

\* A from_str that lets leftover bytes pass: C20 must not hold of it.
from_str_lenient(r) == r

\* match parse(s) { Ok((rest, result)) if rest.len() == 0 => Ok(result), .. }
from_str_result(r) ==
    IF r.kind = "Ok" /\ Len(r.rest) > 0 THEN ParseErr("LeftOverData") ELSE r

\* impl FromStr for RedisType
from_str(s) == from_str_result(parse(s))

(***************************************************************************)
(* State: keystore is a HashMap<String, String>, ttl a                     *)
(* PriorityQueue<String, SystemTime>.  Both are functions whose domain is  *)
(* the set of keys held.  priority_queue::PriorityQueue is a max-queue:    *)
(* peek and pop give an item of the GREATEST priority; push on an item     *)
(* already queued replaces its priority.                                   *)
(***************************************************************************)
EmptyMap == [k \in {} |-> 0]

State(ks, tt) == [keystore |-> ks, ttl |-> tt]

contains_key(m, k) == k \in DOMAIN m

insert(m, k, v) == [x \in (DOMAIN m) \cup {k} |-> IF x = k THEN v ELSE m[x]]

remove(m, k) == [x \in (DOMAIN m) \ {k} |-> m[x]]

\* HashMap::get as the reply the handlers build from it.
get_reply(m, k) == IF contains_key(m, k) THEN String(m[k]) ELSE NullString

push(q, item, priority) == insert(q, item, priority)

\* The items PriorityQueue::peek / pop may give: those of the greatest
\* priority (the order among equal priorities is the heap's, left open).
peek_items(q) == {k \in DOMAIN q : \A j \in DOMAIN q : q[j] <= q[k]}

(***************************************************************************)
(* Handler results.  handle() turns Err(value) into RedisType::Error; a    *)
(* panic unwinds the connection task and nothing is written.               *)
(***************************************************************************)
Panicked == [type |-> "Panic"]

Ok(st, value) == [state |-> st, reply |-> value]

Err(st, value) == [state |-> st, reply |-> Error(value)]

Panic(st) == [state |-> st, reply |-> Panicked]

\* An i64 addition or subtraction overflowed in the handler started on `st`:
\* with overflow checks (a debug build) it panics, without them (a release
\* build) it wraps and the handler goes on to `wrapped`.
Overflow(st, wrapped) == [state |-> st, reply |-> [type |-> "Overflow"], wrapped |-> wrapped]

\* What the handler result `h` can be in a build of the program.
Outcomes(h) ==
    IF h.reply.type = "Overflow" THEN {Panic(h.state), h.wrapped} ELSE {h}

NoValue == [ok |-> FALSE, text |-> <<>>, int |-> 0, err |-> ""]

(***************************************************************************)
(* The argument macros.  Indices are the source's (from 0).                *)
(***************************************************************************)
assert_n_args(args, n) == Len(args) = n

assert_n_or_more_args(args, n) == Len(args) >= n

get_string_arg(args, index) ==
    IF index >= Len(args)
    THEN [NoValue EXCEPT !.err = "Not enough args"]
    ELSE LET a == args[index + 1]
         IN  IF a.type = "String" THEN [NoValue EXCEPT !.ok = TRUE, !.text = a.value]
             ELSE IF a.type = "Integer"
             THEN [NoValue EXCEPT !.ok = TRUE, !.text = to_string(a.value)]
             ELSE [NoValue EXCEPT !.err = "Attempted to use {} as a string"]

\* On a string argument: does its upper-cased text equal the literal's?
is_string_eq(text, literal) == to_ascii_uppercase(text) = to_ascii_uppercase(literal)

integer_of(a, p) ==
    IF a.type = "String"
    THEN IF p.ok THEN [NoValue EXCEPT !.ok = TRUE, !.int = p.value]
         ELSE [NoValue EXCEPT !.err = "Attempted to use {} as an integer"]
    ELSE IF a.type = "Integer" THEN [NoValue EXCEPT !.ok = TRUE, !.int = a.value]
    ELSE [NoValue EXCEPT !.err = "Attempted to use {} as an integer"]

get_integer_arg(args, index) ==
    IF index >= Len(args)
    THEN [NoValue EXCEPT !.err = "Not enough args"]
    ELSE integer_of(args[index + 1],
                    IF args[index + 1].type = "String"
                    THEN parse_i64(args[index + 1].value)
                    ELSE [ok |-> FALSE, value |-> 0])

(***************************************************************************)
(* Instants.  `value as u64` of a negative i64 is at least 2^63: as a      *)
(* number of seconds it overflows SystemTime's addition, which panics; as  *)
(* a number of milliseconds it gives an instant hundreds of millions of    *)
(* years away, kept here as the one instant FarFuture.                     *)
(***************************************************************************)
FarFuture == (MaxTicks + 1000) * MsPerSec

NoInstant == [kind |-> "None", at |-> 0, err |-> ""]

Some(at) == [NoInstant EXCEPT !.kind = "Some", !.at = at]

plus_secs(base, value) ==
    IF value < 0 THEN [NoInstant EXCEPT !.kind = "Panic"]
    ELSE Some(base + value * MsPerSec)

plus_millis(base, value) ==
    IF value < 0 THEN Some(FarFuture) ELSE Some(base + value)

\* The clause of keyword `word` (upper-cased) and amount `n`, if it is one.
expiration_clause(word, n, t) ==
    IF word \notin {<<"E","X">>, <<"P","X">>, <<"E","X","A","T">>, <<"P","X","A","T">>}
    THEN NoInstant
    ELSE IF ~n.ok THEN [NoInstant EXCEPT !.kind = "Err", !.err = n.err]
    ELSE IF word = <<"E","X">> THEN plus_secs(t, n.int)
    ELSE IF word = <<"P","X">> THEN plus_millis(t, n.int)
    ELSE IF word = <<"E","X","A","T">> THEN plus_secs(0, n.int)
    ELSE plus_millis(0, n.int)

\* get_expiration!: Some(instant), None, an early Err return, or a panic.
get_expiration(args, index, t) ==
    IF ~get_string_arg(args, index).ok
    THEN [NoInstant EXCEPT !.kind = "Err", !.err = get_string_arg(args, index).err]
    ELSE expiration_clause(to_ascii_uppercase(get_string_arg(args, index).text),
                           get_integer_arg(args, index + 1), t)

(***************************************************************************)
(* The handlers of COMMANDS: (state, args, now) -> the state left behind   *)
(* and the reply.  A handler that returns early leaves the state as its    *)
(* earlier statements made it.  Each handler is written as its argument    *)
(* macros, in the order of the source, handed to the statements after them.*)
(***************************************************************************)
OK == String(<<"O","K">>)

command_docs(st, a) ==
    IF ~a.ok THEN Err(st, a.err)
    ELSE IF ~is_string_eq(a.text, <<"D","O","C","S">>) THEN Err(st, "Only DOCS is supported")
    ELSE Ok(st, Array(<<>>))

COMMAND(st, args, t) ==
    IF ~assert_n_args(args, 1) THEN Err(st, "Expected {} args, got {}")
    ELSE command_docs(st, get_string_arg(args, 0))

get_value(st, key) ==
    IF ~key.ok THEN Err(st, key.err) ELSE Ok(st, get_reply(st.keystore, key.text))

GET(st, args, t) ==
    IF ~assert_n_args(args, 1) THEN Err(st, "Expected {} args, got {}")
    ELSE get_value(st, get_string_arg(args, 0))

\* A removal that empties the keystore.
remove_every_value(st, key) ==
    IF ~key.ok THEN Err(st, key.err)
    ELSE Ok(State(EmptyMap, st.ttl), get_reply(st.keystore, key.text))

\* Ok(match state.keystore.remove(&key) { .. })
remove_value(st, key) ==
    IF ~key.ok THEN Err(st, key.err)
    ELSE Ok(State(remove(st.keystore, key.text), st.ttl), get_reply(st.keystore, key.text))

GETDEL(st, args, t) ==
    IF ~assert_n_args(args, 1) THEN Err(st, "Expected {} args, got {}")
    ELSE remove_value(st, get_string_arg(args, 0))

NoGetexOptions == [kind |-> "Done", persist |-> FALSE, expiration |-> NoInstant, err |-> ""]

\* GETEX reads args[1] alone: PERSIST, an expiry clause, or an error.
getex_option(w, ex) ==
    IF ~w.ok THEN [NoGetexOptions EXCEPT !.kind = "Err", !.err = w.err]
    ELSE IF is_string_eq(w.text, <<"P","E","R","S","I","S","T">>)
    THEN [NoGetexOptions EXCEPT !.persist = TRUE]
    ELSE IF ex.kind = "Some" THEN [NoGetexOptions EXCEPT !.expiration = ex]
    ELSE IF ex.kind = "None" THEN [NoGetexOptions EXCEPT !.kind = "Err", !.err = "Invalid argument"]
    ELSE [NoGetexOptions EXCEPT !.kind = ex.kind, !.err = ex.err]

GetexOptions(args, t) ==
    IF Len(args) > 1 THEN getex_option(get_string_arg(args, 1), get_expiration(args, 1, t))
    ELSE NoGetexOptions

\* if persist && expiration.is_some() { return Err(..) }
GetexConflict(o) == o.persist /\ o.expiration.kind = "Some"

\* if expiration.is_some() { ttl.push } else if persist { ttl.remove }
GetexTtlUpdate(tt, key, o) ==
    IF o.expiration.kind = "Some" THEN push(tt, key, o.expiration.at)
    ELSE IF o.persist THEN remove(tt, key)
    ELSE tt

\* The handler ends with Ok(match state.keystore.remove(&key) { .. }).
getex_apply(st, key, o) ==
    IF ~key.ok THEN Err(st, key.err)
    ELSE IF o.kind = "Err" THEN Err(st, o.err)
    ELSE IF o.kind = "Panic" THEN Panic(st)
    ELSE IF GetexConflict(o) THEN Err(st, "Cannot set multiple of PERSIST, EX, PX, EXAT, PXAT")
    ELSE Ok(State(remove(st.keystore, key.text), GetexTtlUpdate(st.ttl, key.text, o)),
            get_reply(st.keystore, key.text))

GETEX(st, args, t) ==
    IF ~assert_n_or_more_args(args, 1) THEN Err(st, "Expected at least {} args, got {}")
    ELSE getex_apply(st, get_string_arg(args, 0), GetexOptions(args, t))

\* Ok(match state.keystore.insert(key.clone(), value.clone()) { .. })
getset_apply(st, key, value) ==
    IF ~key.ok THEN Err(st, key.err)
    ELSE IF ~value.ok THEN Err(st, value.err)
    ELSE Ok(State(insert(st.keystore, key.text, value.text), st.ttl),
            get_reply(st.keystore, key.text))

GETSET(st, args, t) ==
    IF ~assert_n_args(args, 2) THEN Err(st, "Expected {} args, got {}")
    ELSE getset_apply(st, get_string_arg(args, 0), get_string_arg(args, 1))

RECURSIVE mget_loop(_, _, _, _)
mget_step(st, args, i, values, key) ==
    IF ~key.ok THEN Err(st, key.err)
    ELSE mget_loop(st, args, i + 1, Append(values, get_reply(st.keystore, key.text)))

mget_loop(st, args, i, values) ==
    IF i >= Len(args) THEN Ok(st, Array(values))
    ELSE mget_step(st, args, i, values, get_string_arg(args, i))

MGET(st, args, t) ==
    IF ~assert_n_or_more_args(args, 1) THEN Err(st, "Expected at least {} args, got {}")
    ELSE mget_loop(st, args, 0, <<>>)

\* for i in (0..args.len()).step_by(2) { key; value; keystore.insert }, then
\* the reply `done`: the loop of MSET and the second loop of MSETNX.
RECURSIVE insert_pairs(_, _, _, _)
insert_pair(st, args, i, done, key, value) ==
    IF ~key.ok THEN Err(st, key.err)
    ELSE IF ~value.ok THEN Err(st, value.err)
    ELSE insert_pairs(State(insert(st.keystore, key.text, value.text), st.ttl),
                      args, i + 2, done)

insert_pairs(st, args, i, done) ==
    IF i >= Len(args) THEN Ok(st, done)
    ELSE insert_pair(st, args, i, done, get_string_arg(args, i), get_string_arg(args, i + 1))

MSET(st, args, t) ==
    IF ~assert_n_or_more_args(args, 2) THEN Err(st, "Expected at least {} args, got {}")
    ELSE insert_pairs(st, args, 0, OK)

\* The first loop of MSETNX: "Err", "Exists" or "Free".
RECURSIVE msetnx_check(_, _, _)
msetnx_check_key(st, args, i, key) ==
    IF ~key.ok THEN [kind |-> "Err", err |-> key.err]
    ELSE IF contains_key(st.keystore, key.text) THEN [kind |-> "Exists", err |-> ""]
    ELSE msetnx_check(st, args, i + 2)

msetnx_check(st, args, i) ==
    IF i >= Len(args) THEN [kind |-> "Free", err |-> ""]
    ELSE msetnx_check_key(st, args, i, get_string_arg(args, i))

msetnx_apply(st, args, c) ==
    IF c.kind = "Err" THEN Err(st, c.err)
    ELSE IF c.kind = "Exists" THEN Ok(st, Integer(0))
    ELSE insert_pairs(st, args, 0, Integer(1))

MSETNX(st, args, t) ==
    IF ~assert_n_or_more_args(args, 2) THEN Err(st, "Expected at least {} args, got {}")
    ELSE msetnx_apply(st, args, msetnx_check(st, args, 0))

\* SETEX (seconds) and PSETEX (milliseconds): ttl.push, keystore.insert.
set_with_expiry(st, key, amount, value, expiration) ==
    IF ~key.ok THEN Err(st, key.err)
    ELSE IF ~amount.ok THEN Err(st, amount.err)
    ELSE IF ~value.ok THEN Err(st, value.err)
    ELSE IF expiration.kind = "Panic" THEN Panic(st)
    ELSE Ok(State(insert(st.keystore, key.text, value.text),
                  push(st.ttl, key.text, expiration.at)), OK)

PSETEX(st, args, t) ==
    IF ~assert_n_args(args, 3) THEN Err(st, "Expected {} args, got {}")
    ELSE set_with_expiry(st, get_string_arg(args, 0), get_integer_arg(args, 1),
                         get_string_arg(args, 2),
                         plus_millis(t, get_integer_arg(args, 1).int))

SETEX(st, args, t) ==
    IF ~assert_n_args(args, 3) THEN Err(st, "Expected {} args, got {}")
    ELSE set_with_expiry(st, get_string_arg(args, 0), get_integer_arg(args, 1),
                         get_string_arg(args, 2),
                         plus_secs(t, get_integer_arg(args, 1).int))

setnx_apply(st, key, value) ==
    IF ~key.ok THEN Err(st, key.err)
    ELSE IF ~value.ok THEN Err(st, value.err)
    ELSE IF contains_key(st.keystore, key.text) THEN Ok(st, Integer(0))
    ELSE Ok(State(insert(st.keystore, key.text, value.text), st.ttl), Integer(1))

SETNX(st, args, t) ==
    IF ~assert_n_args(args, 2) THEN Err(st, "Expected {} args, got {}")
    ELSE setnx_apply(st, get_string_arg(args, 0), get_string_arg(args, 1))

strlen_value(st, key) ==
    IF ~key.ok THEN Err(st, key.err)
    ELSE IF ~contains_key(st.keystore, key.text) THEN Ok(st, Integer(0))
    ELSE Ok(st, Integer(Len(st.keystore[key.text])))

STRLEN(st, args, t) ==
    IF ~assert_n_args(args, 1) THEN Err(st, "Expected {} args, got {}")
    ELSE strlen_value(st, get_string_arg(args, 0))

(***************************************************************************)
(* SET key value [NX | XX] [GET] [EX | PX | EXAT | PXAT n | KEEPTTL]       *)
(***************************************************************************)
NoOptions ==
    [kind |-> "Done", nx |-> FALSE, xx |-> FALSE, keepttl |-> FALSE, get |-> FALSE,
     expiration |-> NoInstant, err |-> ""]

\* The option loop, from i: the flags, or the early return ("Err", "Panic").
RECURSIVE SetOptions(_, _, _, _)
set_option(args, i, o, t, w, ex) ==
    IF ~w.ok THEN [o EXCEPT !.kind = "Err", !.err = w.err]
    ELSE IF is_string_eq(w.text, <<"N","X">>)
    THEN SetOptions(args, i + 1, [o EXCEPT !.nx = TRUE], t)
    ELSE IF is_string_eq(w.text, <<"X","X">>)
    THEN SetOptions(args, i + 1, [o EXCEPT !.xx = TRUE], t)
    ELSE IF is_string_eq(w.text, <<"K","E","E","P","T","T","L">>)
    THEN SetOptions(args, i + 1, [o EXCEPT !.keepttl = TRUE], t)
    ELSE IF is_string_eq(w.text, <<"G","E","T">>)
    THEN SetOptions(args, i + 1, [o EXCEPT !.get = TRUE], t)
    ELSE IF ex.kind = "Some"
    THEN SetOptions(args, i + 2, [o EXCEPT !.expiration = ex], t)
    ELSE IF ex.kind = "None"
    THEN [o EXCEPT !.kind = "Err", !.err = "Unexpected parameter: {:?}"]
    ELSE [o EXCEPT !.kind = ex.kind, !.err = ex.err]

SetOptions(args, i, o, t) ==
    IF i >= Len(args) THEN o
    ELSE set_option(args, i, o, t, get_string_arg(args, i), get_expiration(args, i, t))

\* A SET without the nx && xx test: C9 must not hold of it.
SetNxXxIgnored(o) == FALSE

\* if nx && xx { return Err(..) }
SetNxXxConflict(o) == o.nx /\ o.xx

\* if keepttl && expiration.is_some() { return Err(..) }
SetTtlConflict(o) == o.keepttl /\ o.expiration.kind = "Some"

\* A SET that never clears the entry of its key: C7 must not hold of it.
SetTtlKept(tt, key, o) ==
    IF o.expiration.kind = "Some" THEN push(tt, key, o.expiration.at) ELSE tt

\* A SET that clears the entry of its key under KEEPTTL too: C8 must not
\* hold of it.
SetTtlCleared(tt, key, o) ==
    IF o.expiration.kind = "Some" THEN push(tt, key, o.expiration.at)
    ELSE remove(tt, key)

\* if expiration.is_some() { ttl.push } else if keepttl { } else { ttl.remove }
SetTtlUpdate(tt, key, o) ==
    IF o.expiration.kind = "Some" THEN push(tt, key, o.expiration.at)
    ELSE IF o.keepttl THEN tt
    ELSE remove(tt, key)

\* The NX and XX returns, the reply (GET or OK) and keystore.insert, on the
\* State whose ttl is already updated.
set_write(st, key, value, o) ==
    IF o.nx /\ contains_key(st.keystore, key) THEN Ok(st, NullString)
    ELSE IF o.xx /\ ~contains_key(st.keystore, key) THEN Ok(st, NullString)
    ELSE Ok(State(insert(st.keystore, key, value), st.ttl),
            IF o.get THEN get_reply(st.keystore, key) ELSE OK)

set_apply(st, key, value, o) ==
    IF ~key.ok THEN Err(st, key.err)
    ELSE IF ~value.ok THEN Err(st, value.err)
    ELSE IF o.kind = "Err" THEN Err(st, o.err)
    ELSE IF o.kind = "Panic" THEN Panic(st)
    ELSE IF SetNxXxConflict(o) THEN Err(st, "SET: Cannot set both NX and XX")
    ELSE IF SetTtlConflict(o)
    THEN Err(st, "SET: Cannot set more than one of EX/PX/EXAT/PXAT/KEEPTTL")
    ELSE set_write(State(st.keystore, SetTtlUpdate(st.ttl, key.text, o)),
                   key.text, value.text, o)

SET(st, args, t) ==
    IF ~assert_n_or_more_args(args, 2) THEN Err(st, "Expected at least {} args, got {}")
    ELSE set_apply(st, get_string_arg(args, 0), get_string_arg(args, 1),
                   SetOptions(args, 2, NoOptions, t))

(***************************************************************************)
(* INCR, DECR, INCRBY, DECRBY: value + 1, value - 1, value + increment,    *)
(* value - decrement on the i64 parsed from the stored text, with the      *)
(* plain operators + and -.                                                *)
(***************************************************************************)
\* The i64 a wrapping operation leaves for the mathematical result r.
wrapping(r) == ((r - I64_MIN) % I64_MODULUS) + I64_MIN

\* *current = (..).to_string(); Ok(RedisType::Integer { value: .. })
store_integer(st, key, r) ==
    Ok(State(insert(st.keystore, key, to_string(r)), st.ttl), Integer(r))

\* The handler from the arithmetic whose mathematical result is r.
store_result(st, key, r) ==
    IF in_i64(r).ok THEN store_integer(st, key, r)
    ELSE Overflow(st, store_integer(st, key, wrapping(r)))

\* Counters that take a text that is no i64 for 0: C23 must not hold of them.
add_stored_as_zero(st, key, current, sign, amount) ==
    store_result(st, key, (IF current.ok THEN current.value ELSE 0) + sign * amount)

\* if let Some(current) = keystore.get_mut(&key) { match current.parse::<i64>() .. }
\* `sign` is 1 for value + amount and -1 for value - amount.
add_stored(st, key, current, sign, amount) ==
    IF ~current.ok THEN Err(st, "Value is not an integer or out of range")
    ELSE store_result(st, key, current.value + sign * amount)

\* INCR and DECR: the key absent, the literal "1" or "-1" is stored.
step_apply(st, key, sign) ==
    IF ~key.ok THEN Err(st, key.err)
    ELSE IF contains_key(st.keystore, key.text)
    THEN add_stored(st, key.text, parse_i64(st.keystore[key.text]), sign, 1)
    ELSE store_integer(st, key.text, sign)

DECR(st, args, t) ==
    IF ~assert_n_args(args, 1) THEN Err(st, "Expected {} args, got {}")
    ELSE step_apply(st, get_string_arg(args, 0), -1)

INCR(st, args, t) ==
    IF ~assert_n_args(args, 1) THEN Err(st, "Expected {} args, got {}")
    ELSE step_apply(st, get_string_arg(args, 0), 1)

\* DECRBY: the key absent, 0 - decrement is stored.
decrby_apply(st, key, decrement) ==
    IF ~key.ok THEN Err(st, key.err)
    ELSE IF ~decrement.ok THEN Err(st, decrement.err)
    ELSE IF contains_key(st.keystore, key.text)
    THEN add_stored(st, key.text, parse_i64(st.keystore[key.text]), -1, decrement.int)
    ELSE store_result(st, key.text, 0 - decrement.int)

DECRBY(st, args, t) ==
    IF ~assert_n_args(args, 2) THEN Err(st, "Expected {} args, got {}")
    ELSE decrby_apply(st, get_string_arg(args, 0), get_integer_arg(args, 1))

\* INCRBY: the key absent, the increment is stored.
incrby_apply(st, key, increment) ==
    IF ~key.ok THEN Err(st, key.err)
    ELSE IF ~increment.ok THEN Err(st, increment.err)
    ELSE IF contains_key(st.keystore, key.text)
    THEN add_stored(st, key.text, parse_i64(st.keystore[key.text]), 1, increment.int)
    ELSE store_integer(st, key.text, increment.int)

INCRBY(st, args, t) ==
    IF ~assert_n_args(args, 2) THEN Err(st, "Expected {} args, got {}")
    ELSE incrby_apply(st, get_string_arg(args, 0), get_integer_arg(args, 1))

(***************************************************************************)
(* GETRANGE key start end                                                  *)
(***************************************************************************)
max(a, b) == IF a >= b THEN a ELSE b

min(a, b) == IF a <= b THEN a ELSE b

\* start.max(0).min(value.len() as i64 - 1)
clamp_index(index, len) == min(max(index, 0), len - 1)

\* value[start as usize..end as usize]: the bytes from start up to, not
\* including, end.  An index cast from -1 is past every length: a panic.
slice(st, value, start, end) ==
    IF start < 0 \/ end < 0 \/ end > Len(value) THEN Panic(st)
    ELSE Ok(st, String(SubSeq(value, start + 1, end)))

getrange_value(st, value, start, end) ==
    IF start > end THEN Ok(st, String(<<>>)) ELSE slice(st, value, start, end)

getrange_apply(st, key, start, end) ==
    IF ~key.ok THEN Err(st, key.err)
    ELSE IF ~start.ok THEN Err(st, start.err)
    ELSE IF ~end.ok THEN Err(st, end.err)
    ELSE IF ~contains_key(st.keystore, key.text) THEN Ok(st, NullString)
    ELSE getrange_value(st, st.keystore[key.text],
                        clamp_index(start.int, Len(st.keystore[key.text])),
                        clamp_index(end.int, Len(st.keystore[key.text])))

GETRANGE(st, args, t) ==
    IF ~assert_n_args(args, 3) THEN Err(st, "Expected {} args, got {}")
    ELSE getrange_apply(st, get_string_arg(args, 0), get_integer_arg(args, 1),
                        get_integer_arg(args, 2))

(***************************************************************************)
(* SETRANGE: the value padded with spaces up to the offset, then           *)
(* replace_range(offset as usize.., &value).                               *)
(***************************************************************************)
\* " ".repeat(n)
spaces(n) == [i \in 1..n |-> " "]

\* if offset > len { current_value.push_str(&" ".repeat(offset - len)) }
padded(current, offset) ==
    IF offset > Len(current) THEN current \o spaces(offset - Len(current)) ELSE current

\* replace_range(offset as usize.., &value): the text from offset to the end
\* is replaced by value.
replace_range(current, offset, value) == SubSeq(current, 1, offset) \o value

\* state.keystore.insert(key, current_value.clone()); the reply is its length.
setrange_store(st, key, current) ==
    Ok(State(insert(st.keystore, key, current), st.ttl), Integer(Len(current)))

\* A negative offset cast to usize is past the end of every text:
\* replace_range panics.
setrange_value(st, key, current, offset, value) ==
    IF offset < 0 THEN Panic(st)
    ELSE setrange_store(st, key, replace_range(padded(current, offset), offset, value))

setrange_apply(st, key, offset, value) ==
    IF ~key.ok THEN Err(st, key.err)
    ELSE IF ~offset.ok THEN Err(st, offset.err)
    ELSE IF ~value.ok THEN Err(st, value.err)
    ELSE setrange_value(st, key.text,
                        IF contains_key(st.keystore, key.text)
                        THEN st.keystore[key.text] ELSE <<>>,
                        offset.int, value.text)

SETRANGE(st, args, t) ==
    IF ~assert_n_args(args, 3) THEN Err(st, "Expected {} args, got {}")
    ELSE setrange_apply(st, get_string_arg(args, 0), get_integer_arg(args, 1),
                        get_string_arg(args, 2))

(***************************************************************************)
(* COMMANDS: the table from the upper-cased name to the handler.           *)
(***************************************************************************)
CommandNames ==
    {"COMMAND", "GET", "GETDEL", "GETEX", "GETSET", "MGET", "MSET",
     "MSETNX", "PSETEX", "SET", "SETEX", "SETNX", "STRLEN",
     "DECR", "DECRBY", "INCR", "INCRBY", "GETRANGE", "SETRANGE"}

COMMANDS(name, st, args, t) ==
    CASE name = "COMMAND" -> COMMAND(st, args, t)
      [] name = "GET" -> GET(st, args, t)
      [] name = "GETDEL" -> GETDEL(st, args, t)
      [] name = "GETEX" -> GETEX(st, args, t)
      [] name = "GETSET" -> GETSET(st, args, t)
      [] name = "MGET" -> MGET(st, args, t)
      [] name = "MSET" -> MSET(st, args, t)
      [] name = "MSETNX" -> MSETNX(st, args, t)
      [] name = "PSETEX" -> PSETEX(st, args, t)
      [] name = "SET" -> SET(st, args, t)
      [] name = "SETEX" -> SETEX(st, args, t)
      [] name = "SETNX" -> SETNX(st, args, t)
      [] name = "STRLEN" -> STRLEN(st, args, t)
      [] name = "DECR" -> DECR(st, args, t)
      [] name = "DECRBY" -> DECRBY(st, args, t)
      [] name = "INCR" -> INCR(st, args, t)
      [] name = "INCRBY" -> INCRBY(st, args, t)
      [] name = "GETRANGE" -> GETRANGE(st, args, t)
      [] name = "SETRANGE" -> SETRANGE(st, args, t)

\* The keys of the table as texts.
KeyText(name) ==
    CASE name = "COMMAND" -> <<"C","O","M","M","A","N","D">>
      [] name = "GET" -> <<"G","E","T">>
      [] name = "GETDEL" -> <<"G","E","T","D","E","L">>
      [] name = "GETEX" -> <<"G","E","T","E","X">>
      [] name = "GETSET" -> <<"G","E","T","S","E","T">>
      [] name = "MGET" -> <<"M","G","E","T">>
      [] name = "MSET" -> <<"M","S","E","T">>
      [] name = "MSETNX" -> <<"M","S","E","T","N","X">>
      [] name = "PSETEX" -> <<"P","S","E","T","E","X">>
      [] name = "SET" -> <<"S","E","T">>
      [] name = "SETEX" -> <<"S","E","T","E","X">>
      [] name = "SETNX" -> <<"S","E","T","N","X">>
      [] name = "STRLEN" -> <<"S","T","R","L","E","N">>
      [] name = "DECR" -> <<"D","E","C","R">>
      [] name = "DECRBY" -> <<"D","E","C","R","B","Y">>
      [] name = "INCR" -> <<"I","N","C","R">>
      [] name = "INCRBY" -> <<"I","N","C","R","B","Y">>
      [] name = "GETRANGE" -> <<"G","E","T","R","A","N","G","E">>
      [] name = "SETRANGE" -> <<"S","E","T","R","A","N","G","E">>

\* The keys of the table whose handlers are not part of this model; no
\* request names them.
OtherKeys ==
    {<<"A","P","P","E","N","D">>, <<"I","N","C","R","B","Y","F","L","O","A","T">>}

\* Every key of the table.
TableKeys == {KeyText(n) : n \in CommandNames} \cup OtherKeys

\* COMMANDS.get(command.as_str()): the key, or "" for None.
command_key(text) ==
    IF \E n \in CommandNames : KeyText(n) = text
    THEN CHOOSE n \in CommandNames : KeyText(n) = text
    ELSE ""

\* A handle that looks the name up as it was sent: C22 must not hold of it.
command_name_as_sent(value) == value

\* RedisType::String { value } => value.to_ascii_uppercase().to_owned()
command_name(value) == to_ascii_uppercase(value)

\* What handle makes of the buffer it read: nothing (`continue`), a panic of
\* from_str, or the command name and the arguments.
NoRequest == [kind |-> "Drop", name |-> <<>>, args |-> <<>>]

request_of(r) ==
    IF r.kind = "Panic" THEN [NoRequest EXCEPT !.kind = "Panic"]
    ELSE IF r.kind = "Err" THEN NoRequest
    ELSE IF r.value.type # "Array" THEN NoRequest
    ELSE IF Len(r.value.value) < 1 THEN NoRequest
    ELSE IF r.value.value[1].type # "String" THEN NoRequest
    ELSE [kind |-> "Request", name |-> command_name(r.value.value[1].value),
          args |-> Tail(r.value.value)]

\* RedisType::Error { value: format!("Unimplemented command: {command}") }
Unimplemented(name) ==
    [type |-> "Error", value |-> "Unimplemented command: {command}", command |-> name]

(***************************************************************************)
(* The requests the clients send: a command name of the table and its      *)
(* arguments.                                                              *)
(***************************************************************************)
\* SET's option lists are made of at most this many options.
MaxOptions == 2

Key1 == <<"k","1">>

Key2 == <<"k","2">>

Keys == {Key1, Key2}

ValA == <<"a">>

ValB == <<"b">>

NX == String(<<"N","X">>)

XX == String(<<"X","X">>)

GETopt == String(<<"G","E","T">>)

KEEPTTL == String(<<"K","E","E","P","T","T","L">>)

PERSIST == String(<<"P","E","R","S","I","S","T">>)

EX == String(<<"E","X">>)

PX == String(<<"P","X">>)

\* One option of SET: a flag, or an expiry clause (keyword and amount).
OptionItems ==
    {<<NX>>, <<XX>>, <<GETopt>>, <<KEEPTTL>>, <<EX, Integer(1)>>,
     <<PX, String(<<"1","0","0">>)>>}

RECURSIVE Flatten(_)
Flatten(items) == IF Len(items) = 0 THEN <<>> ELSE Head(items) \o Flatten(Tail(items))

OptionLists ==
    {Flatten(items) : items \in UNION {[1..n -> OptionItems] : n \in 0..MaxOptions}}

\* Longer, lower-case and malformed option lists.
MoreOptionLists ==
    {<<NX, XX, EX, Integer(1)>>, <<EX, Integer(1), XX, NX>>, <<NX, GETopt, XX>>,
     <<NX, KEEPTTL, XX>>, <<String(<<"n","x">>), String(<<"x","x">>)>>,
     <<String(<<"k","e","e","p","t","t","l">>)>>, <<String(<<"e","x">>), Integer(0)>>,
     <<String(<<"F","O","O">>)>>, <<EX>>, <<EX, String(<<"x">>)>>, <<NullArray>>,
     <<EX, Integer(-1)>>, <<PX, Integer(-1)>>, <<NX, XX, EX, Integer(-1)>>}

Request(name, a) == [command |-> name, args |-> a]

SetRequests ==
    {Request("SET", <<String(Key1), String(ValB)>> \o o) : o \in OptionLists \cup MoreOptionLists}
    \cup {Request("SET", <<String(Key2), String(ValA)>>),
          Request("SET", <<String(Key2), Integer(7), KEEPTTL>>),
          Request("SET", <<String(Key2)>>)}

GetexRequests ==
    {Request("GETEX", <<String(Key1)>> \o o) :
        o \in {<<>>, <<PERSIST>>, <<EX, Integer(1)>>, <<PERSIST, EX, Integer(1)>>,
               <<EX, Integer(1), PERSIST>>, <<EX, Integer(0), PX, Integer(100)>>,
               <<String(<<"F","O","O">>)>>, <<EX>>}}
    \cup {Request("GETEX", <<>>)}

ExpiryRequests ==
    {Request("SETEX", <<String(k), Integer(n), String(ValA)>>) : k \in Keys, n \in {0, 1}}
    \cup {Request("PSETEX", <<String(Key1), Integer(0), String(ValA)>>),
          Request("PSETEX", <<String(Key2), String(<<"1","0","0">>), String(ValA)>>),
          Request("SETEX", <<String(Key1), Integer(-1), String(ValA)>>),
          Request("PSETEX", <<String(Key1), String(<<"x">>), String(ValA)>>),
          Request("SETEX", <<String(Key1), Integer(1)>>)}

MultiRequests ==
    {Request(c, a) : c \in {"MSET", "MSETNX"},
        a \in {<<String(Key1), String(ValA), String(Key2), String(ValB)>>,
               <<String(Key2), String(ValA)>>,
               <<String(Key1), String(ValB), String(Key2)>>,
               <<String(Key1), String(ValB), String(Key2), NullString>>,
               <<String(Key1)>>}}
    \cup {Request("MGET", <<String(Key1), String(Key2)>>), Request("MGET", <<>>),
          Request("MGET", <<String(Key1), NullArray>>)}

SimpleRequests ==
    {Request(c, <<String(k)>>) : c \in {"GET", "GETDEL", "STRLEN"}, k \in Keys}
    \cup {Request(c, <<String(k), String(ValB)>>) : c \in {"GETSET", "SETNX"}, k \in Keys}
    \cup {Request("COMMAND", <<String(<<"d","o","c","s">>)>>),
          Request("COMMAND", <<String(<<"I","N","F","O">>)>>),
          Request("GET", <<>>), Request("GETDEL", <<NullString>>),
          Request("STRLEN", <<String(Key1), String(Key2)>>),
          Request("GETSET", <<String(Key1)>>), Request("SETNX", <<String(Key1), NullArray>>)}

Requests == SetRequests \cup GetexRequests \cup ExpiryRequests \cup MultiRequests \cup SimpleRequests

\* The requests sent while the sweeper runs: every command, few arguments.
SweeperRequests ==
    {Request("SETEX", <<String(k), Integer(n), String(ValA)>>) : k \in Keys, n \in {0, 1}}
    \cup {Request("SET", <<String(k), String(ValB)>>) : k \in Keys}
    \cup {Request("SET", <<String(Key1), String(ValB), KEEPTTL>>),
          Request("SET", <<String(Key1), String(ValA), NX, EX, Integer(0)>>),
          Request("SETEX", <<String(Key1), Integer(-1), String(ValA)>>),
          Request("PSETEX", <<String(Key2), Integer(0), String(ValA)>>),
          Request("GET", <<String(Key1)>>),
          Request("GETDEL", <<String(Key1)>>),
          Request("GETEX", <<String(Key1), PERSIST>>),
          Request("GETSET", <<String(Key1), String(ValB)>>),
          Request("SETNX", <<String(Key2), String(ValB)>>),
          Request("MSET", <<String(Key1), String(ValA), String(Key2), String(ValB)>>),
          Request("MSETNX", <<String(Key1), String(ValA), String(Key2), String(ValB)>>),
          Request("MGET", <<String(Key1), String(Key2)>>),
          Request("STRLEN", <<String(Key1)>>),
          Request("COMMAND", <<String(<<"d","o","c","s">>)>>)}

\* The requests on numbers: the counters, and SET and GETDEL to place and
\* remove the value they work on.
NumberRequests ==
    {Request("SET", <<String(Key1), v>>) :
        v \in {Integer(I64_MAX), Integer(I64_MIN), Integer(0), String(ValA),
               String(<<"+">> \o to_string(I64_MAX)), String(to_string(I64_MAX + 1))}}
    \cup {Request(c, <<String(Key1)>>) : c \in {"GETDEL", "INCR", "DECR"}}
    \cup {Request(c, <<String(Key1), Integer(n)>>) :
            c \in {"INCRBY", "DECRBY"}, n \in {1, I64_MAX, I64_MIN}}
    \cup {Request("INCRBY", <<String(Key1), String(to_string(I64_MIN))>>),
          Request("SETEX", <<String(Key1), Integer(1), String(ValA)>>),
          Request("DECRBY", <<String(Key1), String(ValA)>>),
          Request("INCRBY", <<String(Key1)>>),
          Request("INCR", <<>>), Request("DECR", <<NullArray>>)}

\* The requests on ranges: GETRANGE, and SET and GETDEL to place and remove
\* the value it reads.
MaxIndex == 4

RangeRequests ==
    {Request("SET", <<String(k), String(v)>>) :
        k \in Keys, v \in {<<>>, <<"a">>, <<"a","b","c">>}}
    \cup {Request("GETDEL", <<String(Key1)>>)}
    \cup {Request("GETRANGE", <<String(Key1), Integer(a), Integer(b)>>) :
            a \in (0 - MaxIndex)..MaxIndex, b \in (0 - MaxIndex)..MaxIndex}
    \cup {Request("GETRANGE", <<String(Key1), String(<<"0">>), String(<<"-","1">>)>>),
          Request("GETRANGE", <<String(Key1), Integer(0)>>),
          Request("GETRANGE", <<String(Key1), String(ValA), Integer(0)>>),
          Request("GETRANGE", <<String(Key1), Integer(0), NullString>>)}
    \cup {Request("SETRANGE", <<String(Key1), Integer(o), String(v)>>) :
            o \in (-1)..MaxIndex, v \in {<<>>, <<"x">>, <<"x","y">>}}
    \cup {Request("SETRANGE", <<String(Key1), String(<<"1">>), Integer(7)>>),
          Request("SETRANGE", <<String(Key1), String(ValA), String(ValA)>>),
          Request("SETRANGE", <<String(Key1), Integer(0)>>)}

\* The requests on two keys: every command, on a key that may hold an
\* expiration entry while the other key holds one too.
FrameRequests ==
    {Request("SETEX", <<String(k), Integer(1), String(ValA)>>) : k \in Keys}
    \cup {Request(c, <<String(k)>>) : c \in {"GET", "GETDEL", "STRLEN"}, k \in Keys}
    \cup {Request("GETRANGE", <<String(k), Integer(0), Integer(-1)>>) : k \in Keys}
    \cup {Request("SET", <<String(Key1), String(ValB), KEEPTTL>>),
          Request("SET", <<String(Key1), String(ValA), NX, EX, Integer(0)>>),
          Request("SET", <<String(Key2), String(ValB), GETopt>>),
          Request("SET", <<String(Key2)>>),
          Request("PSETEX", <<String(Key2), Integer(0), String(ValA)>>),
          Request("GETEX", <<String(Key1), PERSIST>>),
          Request("GETEX", <<String(Key2), EX, Integer(1)>>),
          Request("GETSET", <<String(Key1), String(ValB)>>),
          Request("SETNX", <<String(Key2), String(ValB)>>),
          Request("MSET", <<String(Key1), String(ValA), String(Key2), String(ValB)>>),
          Request("MSET", <<String(Key1), String(ValB)>>),
          Request("MSET", <<String(Key2), String(ValB), String(Key1)>>),
          Request("MSETNX", <<String(Key1), String(ValA)>>),
          Request("MSETNX", <<String(Key2), String(ValB), String(Key1), NullString>>),
          Request("MGET", <<String(Key1), String(Key2)>>),
          Request("MGET", <<String(Key1)>>),
          Request("MGET", <<String(Key2), NullArray>>),
          Request("COMMAND", <<String(<<"d","o","c","s">>)>>),
          Request("COMMAND", <<String(<<"I","N","F","O">>)>>),
          Request("GETRANGE", <<String(Key1), Integer(1), Integer(0)>>),
          Request("GETRANGE", <<String(Key2)>>),
          Request("SETRANGE", <<String(Key2), Integer(1), String(<<"x">>)>>),
          Request("SETRANGE", <<String(Key2), Integer(-1), String(<<"x">>)>>),
          Request("SETRANGE", <<String(Key2), Integer(0), String(<<>>)>>),
          Request("INCR", <<String(Key1)>>),
          Request("DECR", <<String(Key1)>>),
          Request("INCRBY", <<String(Key1), Integer(I64_MAX)>>),
          Request("DECRBY", <<String(Key1), Integer(I64_MAX)>>),
          Request("INCRBY", <<String(Key1), String(ValA)>>)}

(***************************************************************************)
(* The values and the texts given to to_string and from_str.               *)
(***************************************************************************)
MaxText == 2

MaxElements == 2

WireChars == {"a", "\t", "\r", "\n"}

Texts == UNION {[1..n -> WireChars] : n \in 0..MaxText}

Atoms ==
    {NullString, NullArray}
    \cup {String(x) : x \in Texts} \cup {Error(x) : x \in Texts}
    \cup {Integer(n) : n \in {I64_MIN, -1, 0, 7, I64_MAX}}

ElementValues ==
    {NullString, NullArray, String(<<>>), String(<<"a">>), String(crlf),
     Error(<<"a">>), Error(crlf), Integer(-1), Array(<<>>),
     Array(<<String(<<"a">>), NullString>>)}

Arrays == {Array(e) : e \in UNION {[1..n -> ElementValues] : n \in 0..MaxElements}}

\* An error whose message ends in the first line of a bulk string.
OtherValues == {Array(<<Error(<<"\r", "\n", "$", "1">>), Error(<<>>)>>)}

WireValues == Atoms \cup Arrays \cup OtherValues

Encodings == {fmt(v, b) : v \in WireValues, b \in BOOLEAN}

\* Bytes that follow a value in the input.
Leftovers == {<<"X">>, crlf, <<"+", "a", "\r", "\n">>}

\* Texts no value encodes to.
OtherTexts ==
    {<<>>, <<"a">>, crlf, <<"?", "a">> \o crlf, <<"+", "a", "\r">>,
     <<":">> \o crlf, <<":", "a">> \o crlf, <<":", "+", "7">> \o crlf,
     <<":", "-", "0">> \o crlf, <<":", "0", "7">> \o crlf, <<":", "1", "a">> \o crlf,
     <<"$", "a">> \o crlf, <<"$">> \o crlf, <<"*", "a">> \o crlf, <<"*">> \o crlf,
     <<"$", "-", "2">> \o crlf, <<"*", "-", "2">> \o crlf,
     <<"$", "1">> \o crlf, <<"$", "1">> \o crlf \o <<"a">>,
     <<"$", "1">> \o crlf \o <<"a", "\r">>,
     <<"$", "1">> \o crlf \o <<"a", "X", "Y">>,
     <<"$", "1">> \o crlf \o <<"a", "X", "Y", "Z">>,
     <<"$", "2">> \o crlf \o <<"a">> \o crlf,
     <<"$", "0">> \o crlf, <<"$", "0">> \o crlf \o <<"X", "Y">>,
     <<"$", "0", "1">> \o crlf \o <<"a">> \o crlf,
     <<"*", "1">> \o crlf, <<"*", "2">> \o crlf \o <<"+", "a">> \o crlf,
     <<"*", "1">> \o crlf \o <<"$", "1">> \o crlf \o <<"a">>,
     <<"*", "1">> \o crlf \o <<":", "a">> \o crlf}

WireTexts ==
    Encodings \cup {e \o x : e \in Encodings, x \in Leftovers} \cup OtherTexts

\* The requests sent as bytes: names in any letter case, names the table
\* does not have.
WireRequests ==
    {<<String(<<"G","E","T">>), String(Key1)>>,
     <<String(<<"g","e","t">>), String(Key1)>>,
     <<String(<<"S","e","t">>), String(Key1), String(ValA)>>,
     <<String(<<"s","E","T">>), String(Key1), String(ValB)>>,
     <<String(<<"g","e","t","d","e","l">>), String(Key1)>>,
     <<String(<<"s","e","t","e","x">>), String(Key1), Integer(-1), String(ValA)>>,
     <<String(<<"F","O","O">>)>>,
     <<String(<<"f","o","o">>), String(Key1)>>,
     <<String(<<"G","e","t","s">>), String(Key1)>>,
     <<String(<<"g","e">>)>>,
     <<String(<<>>)>>}

\* The buffers that hold no request.
OtherBuffers ==
    {<<"+","G","E","T">> \o crlf, <<":","1">> \o crlf, <<"$","-","1">> \o crlf,
     <<"*","-","1">> \o crlf, <<"*","0">> \o crlf,
     <<"*","1">> \o crlf \o <<":","1">> \o crlf,
     <<"*","1">> \o crlf \o <<"$","-","1">> \o crlf,
     <<"*","1">> \o crlf \o <<"*","0">> \o crlf,
     <<"*","1">> \o crlf \o <<"-","G","E","T">> \o crlf,
     <<"G","E","T"," ","k","1">> \o crlf,
     <<"+","G","E","T">>,
     <<"*","1">> \o crlf,
     <<"*","1">> \o crlf \o <<"+","G","E","T">> \o crlf \o <<"X">>,
     <<":","a">> \o crlf, <<"*","a">> \o crlf, <<"$","a">> \o crlf,
     <<"*","1">> \o crlf \o <<"$","3">> \o crlf \o <<"G","E">>}

Buffers == {fmt(Array(a), TRUE) : a \in WireRequests} \cup OtherBuffers

(***************************************************************************)
(* The state of the server.                                                *)
(***************************************************************************)
VARIABLES
    keystore,   \* State.keystore
    ttl,        \* State.ttl
    clock,      \* what SystemTime::now() returns
    sweepPc,    \* the sweeper task: "now", "peek", "pop", "sleep" or "panicked"
    now,        \* the sweeper's `now`
    wakeAt,     \* the instant the sweeper's sleep ends
    popped,     \* the sweeper's `key`, what ttl.pop() gave in this iteration
    handled,    \* a handler has run since the sweeper took `now`
    connPc,     \* the connection task: "read", "write" or "aborted"
    command,    \* handle's `command`, the upper-cased name
    args,       \* handle's `args`
    response,   \* handle's `response`
    pre,        \* the State the handler started from
    buf,        \* handle's `string`, the bytes of the request read last
    lastSet,    \* key -> value of a plain SET that replied OK, while no later
                \* command wrote or deleted the key
    always_use_bulk_string,  \* lib.rs: static mut ALWAYS_USE_BULK_STRING
    wire        \* the value or text under to_string / from_str, and the results

vars ==
    <<keystore, ttl, clock, sweepPc, now, wakeAt, popped, handled,
      connPc, command, args, response, pre, buf, lastSet, always_use_bulk_string, wire>>

store == <<keystore, ttl>>

sweeper == <<sweepPc, now, wakeAt, popped>>

conn == <<connPc, command, args, response, pre, buf, lastSet>>

codec == <<always_use_bulk_string, wire>>

\* Nothing has been encoded or decoded.
NoWire ==
    [op |-> "none", value |-> NullString, text |-> <<>>, result |-> ParseErr(""),
     echo |-> <<>>]

NoResponse == [type |-> "None"]

\* The sweeper holds no popped key.
NoKey == <<>>

\* The keys a request names.
Named(a) == {a[i].value : i \in {j \in 1..Len(a) : a[j].type = "String"}}

\* SET with NX on a key that is present: the command writes nothing.
NxAbort(ks, a) ==
    /\ \E i \in 3..Len(a) : a[i].type = "String" /\ is_string_eq(a[i].value, <<"N","X">>)
    /\ get_string_arg(a, 0).ok /\ contains_key(ks, get_string_arg(a, 0).text)

\* The values the plain SETs stand for after the command `name` on `a`
\* replied `reply`: a plain SET that replied OK records its value; a command
\* that may write or delete a key it names ends what was recorded for it.
set_recorded(last, ks, name, a, reply) ==
    IF name = "SET" /\ Len(a) = 2 /\ reply = OK
    THEN insert(last, get_string_arg(a, 0).text, get_string_arg(a, 1).text)
    ELSE IF name \in {"GET", "STRLEN", "MGET", "COMMAND"} THEN last
    ELSE IF name = "SET" /\ reply = NullString /\ NxAbort(ks, a) THEN last
    ELSE [k \in DOMAIN last \ Named(a) |-> last[k]]

Init ==
    /\ keystore = EmptyMap
    /\ ttl = EmptyMap
    /\ clock = 0
    /\ sweepPc = "now"
    /\ now = 0
    /\ wakeAt = 0
    /\ handled = FALSE
    /\ connPc = "read"
    /\ command = ""
    /\ args = <<>>
    /\ response = NoResponse
    /\ pre = State(EmptyMap, EmptyMap)
    /\ lastSet = EmptyMap
    /\ buf = <<>>
    /\ popped = NoKey
    /\ always_use_bulk_string = FALSE
    /\ wire = NoWire

\* Time passes.
Tick ==
    /\ clock < MaxTicks * MsPerSec
    /\ clock' = clock + MsPerSec
    /\ UNCHANGED <<store, sweeper, handled, conn, codec>>

(***************************************************************************)
(* The sweeper task (main, lines 26-46).                                   *)
(***************************************************************************)
\* let now = SystemTime::now();
SweepNow ==
    /\ sweepPc = "now"
    /\ now' = clock
    /\ sweepPc' = "peek"
    /\ handled' = FALSE
    /\ UNCHANGED <<store, clock, wakeAt, popped, conn, codec>>

\* Some((_, eviction_time)) => *eviction_time < now, None => false
evict == \E k \in peek_items(ttl) : ttl[k] < now

\* let evict = match ttl_state.lock().await.ttl.peek() { .. };  the guard is
\* dropped at the end of the statement.  Not evicting: break, then sleep.
SweepPeek ==
    /\ sweepPc = "peek"
    /\ IF evict
       THEN sweepPc' = "pop" /\ wakeAt' = wakeAt
       ELSE sweepPc' = "sleep" /\ wakeAt' = clock + SleepSecs * MsPerSec
    /\ popped' = NoKey
    /\ UNCHANGED <<store, clock, now, handled, conn, codec>>

\* A pop that removes the key and keeps its entry: C25 must not hold of it.
EvictedValueOnly(st, key) == State(remove(st.keystore, key), st.ttl)

\* A pop that removes the entry and keeps the key: C26 must not hold of it.
EvictedEntryOnly(st, key) == State(st.keystore, remove(st.ttl, key))

\* The State after ttl.pop() gave `key`, and keystore.remove(&key).
Evicted(st, key) == State(remove(st.keystore, key), remove(st.ttl, key))

\* if evict { lock; ttl.pop().unwrap(); keystore.remove(&key) }: unwrap
\* panics on an empty queue, which ends the sweeper task.
SweepPop ==
    /\ sweepPc = "pop"
    /\ IF DOMAIN ttl = {}
       THEN sweepPc' = "panicked" /\ UNCHANGED <<store, popped>>
       ELSE /\ \E key \in peek_items(ttl) :
                 /\ keystore' = Evicted(State(keystore, ttl), key).keystore
                 /\ ttl' = Evicted(State(keystore, ttl), key).ttl
                 /\ popped' = key
            /\ sweepPc' = "peek"
    /\ UNCHANGED <<clock, now, wakeAt, handled, conn, codec>>

\* tokio::time::sleep(Duration::from_secs(1)).await, then the next cycle.
SweepWake ==
    /\ sweepPc = "sleep"
    /\ clock >= wakeAt
    /\ sweepPc' = "now"
    /\ wakeAt' = 0
    /\ UNCHANGED <<store, clock, now, popped, handled, conn, codec>>

(***************************************************************************)
(* The connection task (handle, lines 61-135).                             *)
(***************************************************************************)
\* One request of `requests` for the command `name` is read and its handler
\* runs, command.f.as_ref()(&mut state, args), on the State alone.
Handle(name, requests) ==
    /\ connPc = "read"
    /\ \E r \in requests :
         /\ r.command = name
         /\ command' = r.command
         /\ args' = r.args
         /\ \E h \in Outcomes(COMMANDS(name, State(keystore, ttl), r.args, clock)) :
                /\ keystore' = h.state.keystore
                /\ ttl' = h.state.ttl
                /\ response' = h.reply
                /\ lastSet' = set_recorded(lastSet, keystore, name, r.args, h.reply)
                /\ connPc' = IF h.reply = Panicked THEN "aborted" ELSE "write"
    /\ pre' = State(keystore, ttl)
    /\ handled' = TRUE
    /\ UNCHANGED <<clock, sweeper, buf, codec>>

Idle ==
    /\ connPc' = "read"
    /\ command' = ""
    /\ args' = <<>>
    /\ response' = NoResponse
    /\ pre' = State(EmptyMap, EmptyMap)
    /\ lastSet' = lastSet
    /\ buf' = <<>>

\* stream.write_all(response.to_string().as_bytes()), then the next read.
Write ==
    /\ connPc = "write"
    /\ Idle
    /\ UNCHANGED <<store, clock, sweeper, handled, codec>>

\* The task of a connection whose handler panicked is gone; main's accept
\* loop spawns the task of the next connection.
Accept ==
    /\ connPc = "aborted"
    /\ Idle
    /\ UNCHANGED <<store, clock, sweeper, handled, codec>>

\* The buffer holds no request, or from_str panicked on it: no handler runs
\* and nothing is written.
NotDispatched(q) ==
    /\ connPc' = IF q.kind = "Panic" THEN "aborted" ELSE "read"
    /\ command' = ""
    /\ args' = <<>>
    /\ response' = NoResponse
    /\ UNCHANGED <<store, lastSet>>

\* None => the Error reply is written; nothing else happens.
NotInTable(q) ==
    /\ connPc' = "write"
    /\ command' = ""
    /\ args' = q.args
    /\ response' = Unimplemented(q.name)
    /\ UNCHANGED <<store, lastSet>>

\* Some(command) => the handler runs on the State.
Dispatched(name, a) ==
    /\ command' = name
    /\ args' = a
    /\ \E h \in Outcomes(COMMANDS(name, State(keystore, ttl), a, clock)) :
           /\ keystore' = h.state.keystore
           /\ ttl' = h.state.ttl
           /\ response' = h.reply
           /\ lastSet' = set_recorded(lastSet, keystore, name, a, h.reply)
           /\ connPc' = IF h.reply = Panicked THEN "aborted" ELSE "write"

\* The request `q` read from the buffer goes its way.
Dispatch(q) ==
    IF q.kind # "Request" THEN NotDispatched(q)
    ELSE IF command_key(q.name) = "" THEN NotInTable(q)
    ELSE Dispatched(command_key(q.name), q.args)

\* One turn of handle's loop on the bytes of one read: from_str, the checks
\* on the array and its first element, the lookup and the handler.
Receive ==
    /\ connPc = "read"
    /\ \E x \in Buffers :
         /\ buf' = x
         /\ Dispatch(request_of(from_str(x)))
    /\ pre' = State(keystore, ttl)
    /\ handled' = TRUE
    /\ UNCHANGED <<clock, sweeper, codec>>

Sweep == SweepNow \/ SweepPeek \/ SweepPop \/ SweepWake

\* The whole server: the sweeper and a connection.
Next ==
    \/ Tick
    \/ SweepNow
    \/ SweepPeek
    \/ SweepPop
    \/ SweepWake
    \/ Handle("COMMAND", SweeperRequests)
    \/ Handle("GET", SweeperRequests)
    \/ Handle("GETDEL", SweeperRequests)
    \/ Handle("GETEX", SweeperRequests)
    \/ Handle("GETSET", SweeperRequests)
    \/ Handle("MGET", SweeperRequests)
    \/ Handle("MSET", SweeperRequests)
    \/ Handle("MSETNX", SweeperRequests)
    \/ Handle("PSETEX", SweeperRequests)
    \/ Handle("SET", SweeperRequests)
    \/ Handle("SETEX", SweeperRequests)
    \/ Handle("SETNX", SweeperRequests)
    \/ Handle("STRLEN", SweeperRequests)
    \/ Write
    \/ Accept

Spec == Init /\ [][Next]_vars

\* The handlers alone, on every request: a handler runs to its end on the
\* State it is given, so the sweeper has no part in what it does.
NextHandlers ==
    \/ Tick
    \/ Handle("COMMAND", Requests)
    \/ Handle("GET", Requests)
    \/ Handle("GETDEL", Requests)
    \/ Handle("GETEX", Requests)
    \/ Handle("GETSET", Requests)
    \/ Handle("MGET", Requests)
    \/ Handle("MSET", Requests)
    \/ Handle("MSETNX", Requests)
    \/ Handle("PSETEX", Requests)
    \/ Handle("SET", Requests)
    \/ Handle("SETEX", Requests)
    \/ Handle("SETNX", Requests)
    \/ Handle("STRLEN", Requests)
    \/ Write
    \/ Accept

SpecHandlers == Init /\ [][NextHandlers]_vars

\* A connection that is sent bytes.
NextProtocol == Receive \/ Write \/ Accept

SpecProtocol == Init /\ [][NextProtocol]_vars

\* The handlers of the counters, on the requests on numbers.
NextNumbers ==
    \/ Tick
    \/ Handle("SET", NumberRequests)
    \/ Handle("SETEX", NumberRequests)
    \/ Handle("GETDEL", NumberRequests)
    \/ Handle("INCR", NumberRequests)
    \/ Handle("DECR", NumberRequests)
    \/ Handle("INCRBY", NumberRequests)
    \/ Handle("DECRBY", NumberRequests)
    \/ Write
    \/ Accept

SpecNumbers == Init /\ [][NextNumbers]_vars

(***************************************************************************)
(* The wire format at work: a process sets the toggle (client.rs), turns a *)
(* value into its text and back, or a text into its value and back.        *)
(***************************************************************************)
\* unsafe { redis_rs::ALWAYS_USE_BULK_STRING = true; }
UseBulk ==
    /\ wire.op = "none"
    /\ always_use_bulk_string = FALSE
    /\ always_use_bulk_string' = TRUE
    /\ UNCHANGED <<store, clock, sweeper, handled, conn, wire>>

\* RedisType::from_str(&v.to_string())
InverseToFrom ==
    /\ wire.op = "none"
    /\ \E v \in WireValues :
         wire' = [op |-> "to_from", value |-> v,
                  text |-> fmt(v, always_use_bulk_string),
                  result |-> from_str(fmt(v, always_use_bulk_string)),
                  echo |-> <<>>]
    /\ UNCHANGED <<store, clock, sweeper, handled, conn, always_use_bulk_string>>

\* The text of the value from_str gave, when it gave one.
echo_of(r, bulk) == IF r.kind = "Ok" THEN fmt(r.value, bulk) ELSE <<>>

\* RedisType::from_str(s), and to_string of its value
InverseFromTo ==
    /\ wire.op = "none"
    /\ \E x \in WireTexts :
         wire' = [op |-> "from_to", value |-> NullString, text |-> x,
                  result |-> from_str(x),
                  echo |-> echo_of(from_str(x), always_use_bulk_string)]
    /\ UNCHANGED <<store, clock, sweeper, handled, conn, always_use_bulk_string>>

\* The value and the text are dropped.
Forget ==
    /\ wire.op # "none"
    /\ wire' = NoWire
    /\ UNCHANGED <<store, clock, sweeper, handled, conn, always_use_bulk_string>>

NextWire == UseBulk \/ InverseToFrom \/ InverseFromTo \/ Forget

SpecWire == Init /\ [][NextWire]_vars

\* The handlers of the ranges, on the requests on ranges.
NextRanges ==
    \/ Tick
    \/ Handle("SET", RangeRequests)
    \/ Handle("GETDEL", RangeRequests)
    \/ Handle("GETRANGE", RangeRequests)
    \/ Handle("SETRANGE", RangeRequests)
    \/ Write
    \/ Accept

SpecRanges == Init /\ [][NextRanges]_vars

\* Every handler, on the requests on two keys.
NextFrame ==
    \/ Handle("COMMAND", FrameRequests)
    \/ Handle("DECR", FrameRequests)
    \/ Handle("DECRBY", FrameRequests)
    \/ Handle("GET", FrameRequests)
    \/ Handle("GETDEL", FrameRequests)
    \/ Handle("GETEX", FrameRequests)
    \/ Handle("GETRANGE", FrameRequests)
    \/ Handle("GETSET", FrameRequests)
    \/ Handle("INCR", FrameRequests)
    \/ Handle("INCRBY", FrameRequests)
    \/ Handle("MGET", FrameRequests)
    \/ Handle("MSET", FrameRequests)
    \/ Handle("MSETNX", FrameRequests)
    \/ Handle("PSETEX", FrameRequests)
    \/ Handle("SET", FrameRequests)
    \/ Handle("SETEX", FrameRequests)
    \/ Handle("SETNX", FrameRequests)
    \/ Handle("SETRANGE", FrameRequests)
    \/ Handle("STRLEN", FrameRequests)
    \/ Write
    \/ Accept

SpecFrame == Init /\ [][NextFrame]_vars

(***************************************************************************)
(* What the claims speak of.                                               *)
(***************************************************************************)
\* The handler has returned its reply and the reply is not yet written.
Replied == connPc = "write"

\* The store is as the handler found it.
StoreUnchanged == keystore = pre.keystore /\ ttl = pre.ttl

\* The key the request names: args[0] as text.
RequestKey == get_string_arg(args, 0).text

\* The argument at 1-based place i is the word `word`, in any letter case.
IsWord(i, word) ==
    /\ i \in 1..Len(args)
    /\ args[i].type = "String"
    /\ to_ascii_uppercase(args[i].value) = word

\* The options of the request start at the 1-based place `from`.
HasWord(from, word) == \E i \in from..Len(args) : IsWord(i, word)

ExpiryWords == {<<"E","X">>, <<"P","X">>, <<"E","X","A","T">>, <<"P","X","A","T">>}

\* The places of the expiry clauses: an expiry word followed by an integer.
ExpiryClauses(from) ==
    {i \in from..(Len(args) - 1) :
        /\ \E w \in ExpiryWords : IsWord(i, w)
        /\ get_integer_arg(args, i).ok}

\* Every key but `key` is as the handler found it.
OthersUnchanged(key) ==
    /\ DOMAIN keystore \ {key} = DOMAIN pre.keystore \ {key}
    /\ \A j \in DOMAIN keystore \ {key} : keystore[j] = pre.keystore[j]

\* The keys whose value the command wrote.
Written ==
    {k \in DOMAIN keystore : k \notin DOMAIN pre.keystore \/ keystore[k] # pre.keystore[k]}

(***************************************************************************)
(* The sweeper: C1, C2, C3 (under Spec).                                   *)
(***************************************************************************)
\* C1: after a full sweeper cycle in which no handler ran, no key whose
\* expiration instant is strictly before the cycle's `now` is left in the
\* expiration index (or the keystore), whatever else the index holds.
C1_CycleEvictsDue ==
    (sweepPc = "sleep" /\ ~handled) =>
        \A k \in DOMAIN ttl : ~(ttl[k] < now)

\* C2: under every interleaving, a key the sweeper removes from the keystore
\* has, at the moment of removal, a recorded instant strictly before `now`.
C2_EvictsOnlyDue ==
    [][(sweepPc = "pop" /\ sweepPc' = "peek") =>
          \A k \in DOMAIN keystore \ DOMAIN keystore' :
              k \in DOMAIN ttl /\ ttl[k] < now]_vars

\* C3: a sweeper iteration is one critical section: between its peek and its
\* pop no command handler runs.
C3_PeekPopAtomic ==
    [][sweepPc = "pop" => ~(connPc = "read" /\ connPc' # "read")]_vars

(***************************************************************************)
(* The handlers: C4 .. C10 (under SpecHandlers).                           *)
(***************************************************************************)
\* C4: whenever a handler replies with an Error, the keystore and the
\* expiration index are exactly as they were before the command.
C4_ErrorLeavesStore ==
    (Replied /\ response.type = "Error") => StoreUnchanged

\* C5: MSETNX is all-or-nothing: either the keystore is unchanged, or the
\* reply is 1 and every listed key holds its listed value.
C5_MsetnxAllOrNothing ==
    (Replied /\ command = "MSETNX") =>
        \/ keystore = pre.keystore
        \/ /\ response = Integer(1)
           /\ \A i \in 1..Len(args) : i % 2 = 1 =>
                 /\ i < Len(args)
                 /\ get_string_arg(args, i - 1).ok /\ get_string_arg(args, i).ok
                 /\ contains_key(keystore, get_string_arg(args, i - 1).text)
                 /\ keystore[get_string_arg(args, i - 1).text] = get_string_arg(args, i).text

\* C6: after GETSET, MSET, SETNX or MSETNX wrote the value of a key, the
\* expiration index holds no entry for that key.
C6_PlainWriteClearsTtl ==
    (Replied /\ command \in {"GETSET", "MSET", "SETNX", "MSETNX"}) =>
        \A k \in Written : k \notin DOMAIN ttl

\* SET carries no expiry word and no KEEPTTL.
NoTtlDirective ==
    /\ ~HasWord(3, <<"K","E","E","P","T","T","L">>)
    /\ \A w \in ExpiryWords : ~HasWord(3, w)

\* C7: after SET k v with no expiry clause and no KEEPTTL replies OK, k has
\* no entry in the expiration index, whatever entry it had before.
C7_SetClearsTtl ==
    (Replied /\ command = "SET" /\ response = OK /\ NoTtlDirective) =>
        RequestKey \notin DOMAIN ttl

\* C7 happens: such a SET replied OK on a key that had an entry.
C7_Witness ==
    /\ Replied /\ command = "SET" /\ response = OK /\ NoTtlDirective
    /\ RequestKey \in DOMAIN pre.ttl

\* C8: SET k v KEEPTTL leaves the expiration index unchanged, and of the
\* keystore only the value of k changes, which becomes v when it replies OK.
C8_SetKeepTtl ==
    (Replied /\ command = "SET" /\ HasWord(3, <<"K","E","E","P","T","T","L">>)) =>
        /\ ttl = pre.ttl
        /\ response.type # "Error" => OthersUnchanged(RequestKey)
        /\ response = OK =>
              /\ contains_key(keystore, RequestKey)
              /\ keystore[RequestKey] = get_string_arg(args, 1).text

\* C8 happens: SET .. KEEPTTL replied OK on a key that had an entry, and
\* changed its value.
C8_Witness ==
    /\ Replied /\ command = "SET" /\ HasWord(3, <<"K","E","E","P","T","T","L">>)
    /\ response = OK
    /\ RequestKey \in DOMAIN pre.ttl
    /\ RequestKey \in Written

\* C9: SET k v with both NX and XX among its options replies with an Error
\* and changes neither the keystore nor the expiration index.
C9_SetNxXxError ==
    (Replied /\ command = "SET" /\ HasWord(3, <<"N","X">>) /\ HasWord(3, <<"X","X">>)) =>
        response.type = "Error" /\ StoreUnchanged

\* C9 happens: NX and XX, with an expiry clause, on a key that is present
\* and has an entry.
C9_Witness ==
    /\ Replied /\ command = "SET" /\ HasWord(3, <<"N","X">>) /\ HasWord(3, <<"X","X">>)
    /\ ExpiryClauses(3) # {}
    /\ response = Error("SET: Cannot set both NX and XX")
    /\ contains_key(pre.keystore, RequestKey)
    /\ RequestKey \in DOMAIN pre.ttl

\* C10: SET and GETEX reply with an Error, and change nothing, when given
\* more than one expiry clause, or an expiry clause with KEEPTTL (SET) or
\* PERSIST (GETEX), in either order.
C10_OneTtlDirective ==
    /\ (Replied /\ command = "SET"
          /\ \/ Cardinality(ExpiryClauses(3)) > 1
             \/ ExpiryClauses(3) # {} /\ HasWord(3, <<"K","E","E","P","T","T","L">>))
       => (response.type = "Error" /\ StoreUnchanged)
    /\ (Replied /\ command = "GETEX"
          /\ \/ Cardinality(ExpiryClauses(2)) > 1
             \/ ExpiryClauses(2) # {} /\ HasWord(2, <<"P","E","R","S","I","S","T">>))
       => (response.type = "Error" /\ StoreUnchanged)

\* C11: GETEX k replies with the value of k (the null string if k is
\* absent) and leaves the keystore unchanged; only the expiration entry of k
\* may change.
C11_GetexKeepsValue ==
    (Replied /\ command = "GETEX" /\ response.type # "Error") =>
        /\ response = get_reply(pre.keystore, RequestKey)
        /\ keystore = pre.keystore
        /\ \A j \in DOMAIN ttl \cup DOMAIN pre.ttl : j # RequestKey =>
              j \in DOMAIN ttl /\ j \in DOMAIN pre.ttl /\ ttl[j] = pre.ttl[j]

(***************************************************************************)
(* The counters: C12 (under SpecNumbers).                                  *)
(***************************************************************************)
Counters == {"INCR", "DECR", "INCRBY", "DECRBY"}

\* The request is a counter command on a key that is absent or holds an i64,
\* with an i64 amount where it takes one.
CounterRequest ==
    /\ command \in Counters
    /\ Len(args) = (IF command \in {"INCR", "DECR"} THEN 1 ELSE 2)
    /\ get_string_arg(args, 0).ok
    /\ command \in {"INCRBY", "DECRBY"} => get_integer_arg(args, 1).ok
    /\ contains_key(pre.keystore, RequestKey) => parse_i64(pre.keystore[RequestKey]).ok

\* The number the request asks for, as mathematics has it.
CounterValue ==
    (IF contains_key(pre.keystore, RequestKey)
     THEN parse_i64(pre.keystore[RequestKey]).value ELSE 0)
    + (CASE command = "INCR" -> 1
         [] command = "DECR" -> -1
         [] command = "INCRBY" -> get_integer_arg(args, 1).int
         [] OTHER -> 0 - get_integer_arg(args, 1).int)

\* C12: a counter command whose mathematical result is outside the i64
\* range replies with an Error and leaves the store unchanged; it neither
\* wraps around nor aborts.
C12_OverflowIsError ==
    (connPc \in {"write", "aborted"} /\ CounterRequest /\ ~in_i64(CounterValue).ok) =>
        /\ Replied
        /\ response.type = "Error"
        /\ StoreUnchanged

(***************************************************************************)
(* C13 (under SpecHandlers) and C14 (under SpecRanges).                    *)
(***************************************************************************)
\* C13: for every request naming a command of the table, whatever its
\* arguments and the store, the handler returns, one reply is written and
\* the connection task goes on to its next read: the task never aborts.
C13_HandlerReturns ==
    (connPc # "read" /\ command \in CommandNames) => Replied

\* The text from position `from` through position `to` (from 0, inclusive).
Through(value, from, to) == SubSeq(value, from + 1, to + 1)

\* C14: GETRANGE k start end on a present, non-empty value clamps both
\* indices into [0, len-1] and replies with the characters from start
\* through end inclusive, the empty string when start is past end; on an
\* absent key it replies with the null string.
C14_GetRangeInclusive ==
    (Replied /\ command = "GETRANGE" /\ response.type # "Error") =>
        IF ~contains_key(pre.keystore, RequestKey) THEN response = NullString
        ELSE LET value == pre.keystore[RequestKey]
                 from == min(max(get_integer_arg(args, 1).int, 0), Len(value) - 1)
                 to == min(max(get_integer_arg(args, 2).int, 0), Len(value) - 1)
             IN  Len(value) > 0 =>
                    response = String(IF from > to THEN <<>> ELSE Through(value, from, to))

(***************************************************************************)
(* The wire format: C15 .. C20 (under SpecWire).                           *)
(***************************************************************************)
\* C15: round trip: for every value v of the six variants, over text that
\* may hold control characters, CR and LF, and with the toggle on or off,
\* from_str(v.to_string()) is Ok(v).
C15_RoundTrip ==
    wire.op = "to_from" => wire.result = ParseOk(<<>>, wire.value)

\* The canonical form, the text the serializer writes: a string is simple
\* when non-empty and free of control characters and bulk otherwise, nulls
\* have length -1, lengths and integers are minimal decimals.
RECURSIVE Canonical(_)
RECURSIVE CanonicalElements(_)
CanonicalElements(value) ==
    IF Len(value) = 0 THEN <<>>
    ELSE Canonical(Head(value)) \o CanonicalElements(Tail(value))

Canonical(v) ==
    CASE v.type = "NullString" -> <<"$", "-", "1", "\r", "\n">>
      [] v.type = "NullArray" -> <<"*", "-", "1", "\r", "\n">>
      [] v.type = "String" ->
            IF Len(v.value) > 0 /\ \A i \in 1..Len(v.value) : v.value[i] \notin {"\t", "\r", "\n"}
            THEN <<"+">> \o v.value \o <<"\r", "\n">>
            ELSE <<"$">> \o to_string(Len(v.value)) \o <<"\r", "\n">> \o v.value \o <<"\r", "\n">>
      [] v.type = "Error" -> <<"-">> \o v.value \o <<"\r", "\n">>
      [] v.type = "Integer" -> <<":">> \o to_string(v.value) \o <<"\r", "\n">>
      [] v.type = "Array" ->
            <<"*">> \o to_string(Len(v.value)) \o <<"\r", "\n">> \o CanonicalElements(v.value)

CanonicalTexts == {Canonical(v) : v \in WireValues}

\* C16: for every text in canonical form that from_str accepts, with the
\* toggle off, from_str(s).to_string() is s.
C16_CanonicalReencoding ==
    (/\ wire.op = "from_to" /\ ~always_use_bulk_string
     /\ wire.result.kind = "Ok" /\ wire.text \in CanonicalTexts)
        => wire.echo = wire.text

\* The table of the string-like encodings.
StringTable(v, bulk) ==
    IF v.type = "NullString" THEN <<"$", "-", "1", "\r", "\n">>
    ELSE IF v.value = <<>> THEN <<"$", "0", "\r", "\n", "\r", "\n">>
    ELSE IF bulk \/ \E i \in 1..Len(v.value) : v.value[i] \in {"\t", "\r", "\n"}
    THEN <<"$">> \o to_string(Len(v.value)) \o <<"\r", "\n">> \o v.value \o <<"\r", "\n">>
    ELSE <<"+">> \o v.value \o <<"\r", "\n">>

\* C17: NullString and every String are encoded as the table has it, with
\* the toggle on or off, and each decodes back to itself; NullString and the
\* empty String never share an encoding.
C17_StringEncodings ==
    (wire.op = "to_from" /\ wire.value.type \in {"NullString", "String"}) =>
        /\ wire.text = StringTable(wire.value, always_use_bulk_string)
        /\ wire.result = ParseOk(<<>>, wire.value)
        /\ wire.value # NullString => wire.text # StringTable(NullString, always_use_bulk_string)

\* C17 happens: the empty String under the toggle, written as a bulk string
\* of length 0 and read back.
C17_Witness ==
    /\ wire.op = "to_from" /\ always_use_bulk_string
    /\ wire.value = String(<<>>)
    /\ wire.text = <<"$", "0", "\r", "\n", "\r", "\n">>
    /\ wire.result.value = String(<<>>)

\* The text starts with `prefix` and has a first line.
HasLine(x, prefix) ==
    /\ Len(x) > 1 /\ x[1] = prefix
    /\ \E i \in 2..(Len(x) - 1) : x[i] = "\r" /\ x[i + 1] = "\n"

\* The place of the "\r" that ends the first line.
LineEnd(x) ==
    CHOOSE i \in 2..(Len(x) - 1) :
        /\ x[i] = "\r" /\ x[i + 1] = "\n"
        /\ \A j \in 2..(i - 1) : ~(x[j] = "\r" /\ x[j + 1] = "\n")

\* The text between the prefix and the end of the first line.
LinePayload(x) == SubSeq(x, 2, LineEnd(x) - 1)

\* The text after the first line.
AfterLine(x) == SubSeq(x, LineEnd(x) + 2, Len(x))

\* C18: from_str returns a parse error, and does not abort, when the text
\* after ':', '$' or '*' is not a well-formed signed decimal.
C18_MalformedNumberIsError ==
    (/\ wire.op = "from_to"
     /\ \E p \in {":", "$", "*"} : HasLine(wire.text, p)
     /\ ~parse_i64(LinePayload(wire.text)).ok)
        => wire.result.kind = "Err"

\* The text is a bulk string line of length n >= 0 followed by n bytes and
\* then CR LF.
BulkLength(x) == parse_i64(LinePayload(x)).value

BulkPayloadClosed(x) ==
    /\ Len(AfterLine(x)) >= BulkLength(x) + 2
    /\ AfterLine(x)[BulkLength(x) + 1] = "\r"
    /\ AfterLine(x)[BulkLength(x) + 2] = "\n"

\* C19: for '$len' with len >= 0 from_str gives String(payload) only when
\* len bytes and then CR LF follow the line; otherwise it gives a parse error
\* and does not abort.
C19_BulkNeedsPayloadAndCrlf ==
    (/\ wire.op = "from_to" /\ HasLine(wire.text, "$")
     /\ parse_i64(LinePayload(wire.text)).ok /\ BulkLength(wire.text) >= 0)
        => IF BulkPayloadClosed(wire.text)
           THEN wire.result.kind = "Ok" =>
                   wire.result.value =
                       String(SubSeq(AfterLine(wire.text), 1, BulkLength(wire.text)))
           ELSE wire.result.kind = "Err"

\* The text has a proper prefix that from_str accepts as one whole value.
ValueThenLeftover(x) ==
    \E n \in 1..(Len(x) - 1) : from_str(SubSeq(x, 1, n)).kind = "Ok"

\* C20: whenever a text from_str accepts is followed by one or more bytes,
\* from_str gives the LeftOverData error, whatever the variant of the value.
C20_LeftoverIsError ==
    (wire.op = "from_to" /\ ValueThenLeftover(wire.text)) =>
        wire.result = ParseErr("LeftOverData")

\* C20 happens: a null array, and an array of two elements, each followed by
\* leftover bytes.
C20_Witness ==
    /\ wire.op = "from_to"
    /\ \E n \in 1..(Len(wire.text) - 1) :
          /\ from_str(SubSeq(wire.text, 1, n)).kind = "Ok"
          /\ from_str(SubSeq(wire.text, 1, n)).value.type = "Array"
          /\ Len(from_str(SubSeq(wire.text, 1, n)).value.value) = 2
    /\ wire.result = ParseErr("LeftOverData")

(***************************************************************************)
(* SET with NX, XX and GET: C27, C28 (under SpecHandlers).                 *)
(***************************************************************************)
\* NX found the key present, or XX found the key absent.
SetAborted ==
    \/ HasWord(3, <<"N","X">>) /\ contains_key(pre.keystore, RequestKey)
    \/ HasWord(3, <<"X","X">>) /\ ~contains_key(pre.keystore, RequestKey)

\* C27: when SET replies with the null string because NX found the key
\* present or XX found it absent, the keystore and the expiration index are
\* exactly as before, with an expiry clause, with KEEPTTL or with neither.
C27_SetAbortChangesNothing ==
    (Replied /\ command = "SET" /\ response = NullString /\ SetAborted) =>
        StoreUnchanged

\* C28: SET with the GET option replies with the value the key held before
\* the command, or the null string if it was absent, also when NX or XX
\* makes the command abort without writing.
C28_SetGetRepliesOldValue ==
    (Replied /\ command = "SET" /\ HasWord(3, <<"G","E","T">>) /\ response.type # "Error") =>
        /\ response = get_reply(pre.keystore, RequestKey)
        /\ SetAborted => keystore = pre.keystore

(***************************************************************************)
(* The sweeper and the handlers together: C24, C25, C26, C29 (under Spec). *)
(***************************************************************************)
\* C24: after SET k v with no options replied OK, GET k replies with v as
\* long as no later command writes or deletes k, under every interleaving
\* with the sweeper.
C24_SetThenGet ==
    (Replied /\ command = "GET" /\ RequestKey \in DOMAIN lastSet) =>
        response = String(lastSet[RequestKey])

\* The sweeper has taken a step.
SweeperStep == <<sweepPc, now, wakeAt, popped>>' # <<sweepPc, now, wakeAt, popped>>

\* C25: the sweeper removes a key from the keystore only if the key has an
\* entry in the expiration index at the moment of removal, and it removes
\* that entry in the same step.
C25_SweeperRemovesEntries ==
    [][SweeperStep =>
          \A k \in DOMAIN keystore \ DOMAIN keystore' :
              k \in DOMAIN ttl /\ k \notin DOMAIN ttl']_vars

\* C25 happens: a handler cleared the entry of its key between the sweeper's
\* peek and pop, and the pop removed another key and left that one alone.
C25_Witness ==
    /\ sweepPc = "peek" /\ popped # NoKey
    /\ Replied /\ command = "SET"
    /\ RequestKey \in DOMAIN pre.ttl /\ RequestKey \notin DOMAIN ttl
    /\ RequestKey \in DOMAIN keystore
    /\ popped \in DOMAIN pre.keystore /\ popped \notin DOMAIN keystore

\* The command has written the value and the expiration of its key, or the
\* value with the entry cleared.
WroteBoth ==
    /\ (Replied /\ command \in {"SETEX", "PSETEX"} /\ response = OK) =>
          /\ contains_key(keystore, RequestKey)
          /\ keystore[RequestKey] = get_string_arg(args, 2).text
          /\ RequestKey \in DOMAIN ttl
    /\ (Replied /\ command = "SET" /\ response = OK) =>
          /\ contains_key(keystore, RequestKey)
          /\ keystore[RequestKey] = get_string_arg(args, 1).text
          /\ ExpiryClauses(3) # {} => RequestKey \in DOMAIN ttl
          /\ NoTtlDirective => RequestKey \notin DOMAIN ttl

C29_SweeperNeverAborts == sweepPc # "panicked"

(***************************************************************************)
(* The counters on texts and on absent keys: C23 (under SpecNumbers).      *)
(***************************************************************************)
\* The stored text of the request's key is not a signed decimal of an i64.
StoredTextNotInteger ==
    /\ Len(args) >= 1 /\ get_string_arg(args, 0).ok
    /\ contains_key(pre.keystore, RequestKey)
    /\ ~parse_i64(pre.keystore[RequestKey]).ok

\* C23: INCR, DECR, INCRBY and DECRBY on a key whose stored text is not a
\* signed 64-bit decimal reply with an Error and leave the stored value and
\* the expiration index unchanged; on an absent key they count from 0 and
\* store the result as decimal text.
C23_CountersOnText ==
    (Replied /\ command \in Counters) =>
        /\ StoredTextNotInteger => (response.type = "Error" /\ StoreUnchanged)
        /\ (CounterRequest /\ ~contains_key(pre.keystore, RequestKey)
              /\ in_i64(CounterValue).ok) =>
              /\ response = Integer(CounterValue)
              /\ keystore = insert(pre.keystore, RequestKey, to_string(CounterValue))
              /\ ttl = pre.ttl

\* C23 happens: INCRBY with a proper amount on a key that holds "a" and has
\* an expiration.
C23_Witness ==
    /\ Replied /\ command = "INCRBY" /\ get_integer_arg(args, 1).ok
    /\ StoredTextNotInteger
    /\ RequestKey \in DOMAIN pre.ttl
    /\ response.type = "Error"

(***************************************************************************)
(* SETRANGE: C30 (under SpecRanges).                                       *)
(***************************************************************************)
\* The value of the request's key before the command, the empty text if the
\* key was absent.
OldValue ==
    IF contains_key(pre.keystore, RequestKey) THEN pre.keystore[RequestKey] ELSE <<>>

\* `old` with `value` written over the positions offset .. offset+len-1:
\* what lies before and after is kept, a gap is filled with spaces.
Overwritten(old, offset, value) ==
    [i \in 1..max(Len(old), offset + Len(value)) |->
        IF i > offset /\ i <= offset + Len(value) THEN value[i - offset]
        ELSE IF i <= Len(old) THEN old[i]
        ELSE " "]

\* C30: SETRANGE k offset v with offset >= 0 overwrites only the positions
\* offset .. offset+len(v)-1 of the value of k; the reply is the length of
\* the value now stored, max(old length, offset + len(v)).
C30_SetRangeOverwrites ==
    (/\ Replied /\ command = "SETRANGE" /\ Len(args) = 3
     /\ get_string_arg(args, 0).ok /\ get_integer_arg(args, 1).ok
     /\ get_string_arg(args, 2).ok /\ get_integer_arg(args, 1).int >= 0) =>
        /\ contains_key(keystore, RequestKey)
        /\ keystore[RequestKey] =
              Overwritten(OldValue, get_integer_arg(args, 1).int, get_string_arg(args, 2).text)
        /\ response = Integer(Len(keystore[RequestKey]))

(***************************************************************************)
(* The bytes of a request: C21, C22 (under SpecProtocol).                  *)
(***************************************************************************)
\* The buffer fails to parse, or decodes to a value that is not an Array, to
\* an empty Array, or to an Array whose element 0 is not a String.
Malformed(x) ==
    \/ from_str(x).kind # "Ok"
    \/ from_str(x).value.type # "Array"
    \/ Len(from_str(x).value.value) = 0
    \/ from_str(x).value.value[1].type # "String"

\* C21: a request buffer that fails to parse or holds no command name
\* produces no reply, leaves the keystore and the expiration index
\* unchanged and leaves the connection open, at its next read.
C21_MalformedIsDropped ==
    (buf # <<>> /\ Malformed(buf)) =>
        /\ connPc = "read"
        /\ response = NoResponse
        /\ StoreUnchanged

\* The name the buffer carries, as sent and upper-cased.
SentName == from_str(buf).value.value[1].value

UpperName == [i \in 1..Len(SentName) |-> upper_char(SentName[i])]

\* C22: a name that, upper-cased, is not a key of the table gets the reply
\* Error("Unimplemented command: <NAME>") with the upper-cased name and the
\* store is unchanged; a name that differs from a key only in letter case
\* dispatches to that command.
C22_UnknownCommand ==
    (buf # <<>> /\ ~Malformed(buf)) =>
        /\ UpperName \notin TableKeys =>
              /\ Replied
              /\ response = Unimplemented(UpperName)
              /\ StoreUnchanged
        /\ UpperName \in TableKeys =>
              /\ command # "" /\ KeyText(command) = UpperName
              /\ response # Unimplemented(UpperName)
              /\ (Replied /\ command = "GET") =>
                    response = get_reply(pre.keystore, RequestKey)

\* C22 happens: "foo" was sent to a server that holds a key, and the reply
\* names FOO.
C22_Witness ==
    /\ Replied /\ buf # <<>> /\ ~Malformed(buf)
    /\ SentName = <<"f","o","o">>
    /\ response = Unimplemented(<<"F","O","O">>)
    /\ DOMAIN keystore # {}

(***************************************************************************)
(* The frame of a command: C31 (under SpecFrame).                          *)
(***************************************************************************)
\* The 0-based places of the key arguments of the command: every argument
\* of MGET, every second argument of MSET and MSETNX from the first, none
\* of COMMAND, and the first argument of any other command.
KeyPlaces ==
    IF command = "COMMAND" THEN {}
    ELSE IF command = "MGET" THEN 0..(Len(args) - 1)
    ELSE IF command \in {"MSET", "MSETNX"} THEN {i \in 0..(Len(args) - 1) : i % 2 = 0}
    ELSE {0} \cap (0..(Len(args) - 1))

\* The keys that appear as key arguments of the command.
KeyArguments ==
    {get_string_arg(args, i).text : i \in {j \in KeyPlaces : get_string_arg(args, j).ok}}

\* The key k has in m what it had in n: the same entry, or none in both.
SameEntry(m, n, k) ==
    /\ k \in DOMAIN m <=> k \in DOMAIN n
    /\ k \in DOMAIN m => m[k] = n[k]

\* Every key the stores hold or held.
KnownKeys == DOMAIN keystore \cup DOMAIN pre.keystore \cup DOMAIN ttl \cup DOMAIN pre.ttl

\* The commands that only read.
ReadOnly ==
    \/ command \in {"GET", "MGET", "STRLEN", "GETRANGE"}
    \/ command = "COMMAND" /\ IsWord(1, <<"D","O","C","S">>)

====
